---------------------------- MODULE Spec2Model ----------------------------
(***************************************************************************)
(* The sandboxed resource-access layer of the agent                        *)
(* (src/agent/functions/agent_functions.py): get_files_info,               *)
(* get_file_content, write_file and run_python_file, as a state machine    *)
(* over a filesystem.                                                      *)
(*                                                                         *)
(* The filesystem is a tree of directories, regular files and entries that  *)
(* are neither (sockets), with POSIX semantics.  A path is the sequence of *)
(* its components from "/"; the sandbox root (working_directory) is /w,    *)
(* and /a is a file outside it.  Symbolic links, permission refusals and   *)
(* undecodable bytes are not part of this model; names hold no glob        *)
(* metacharacters.                                                         *)
(* Directory iteration order (os.scandir) is a property of the filesystem: *)
(* it is the variable scan, arbitrary but fixed.                           *)
(***************************************************************************)
EXTENDS Integers, Sequences, FiniteSets, TLC

\* ------------------------------------------------------------------ bounds

\* Longest requested path, in components.
MaxSegs == 3
\* The most entries under the root in an initial tree.
MaxEntries == 3
\* The same for the machine that only writes, which needs two directories
\* that each hold a file of the same name.
MaxWriteEntries == 4

\* ------------------------------------------------------------- vocabulary

Names == {"a", "m.py"}
PyNames == {"m.py"}
RootName == "w"
DotDot == ".."
Dot == "."
Root == <<RootName>>
FsRoot == <<>>

CR == "CR"
LF == "LF"
\* The content arguments of write_file: the empty string, and text with a
\* two-byte character and a carriage return.
Contents == {<<>>, <<"eacute", CR>>}
\* What the files of the initial tree hold.
Old == <<"x", CR, LF>>

VARIABLES fs, scan, last, proc, main, agent

vars == <<fs, scan, last, proc, main, agent>>


\* ------------------------------------------------------------------ paths

\* A requested path (the directory / file_path argument): abs tells whether
\* the string starts with "/", segs are its components between slashes.
\* "." is <<".">> and the empty string is <<>>.
RECURSIVE SeqsUpTo(_, _)
SeqsUpTo(S, n) ==
    IF n = 0 THEN {<<>>}
    ELSE LET shorter == SeqsUpTo(S, n - 1)
         IN  shorter \cup {Append(q, x) : q \in {r \in shorter : Len(r) = n - 1}, x \in S}

RelativeRequests ==
    {[abs |-> FALSE, segs |-> q] : q \in SeqsUpTo(Names \cup {DotDot}, MaxSegs) \cup {<<Dot>>}}

\* Absolute requests: the root itself, paths under it and paths beside it.
AbsoluteRequests ==
    {[abs |-> TRUE, segs |-> q] :
        q \in {<<RootName>> \o t : t \in SeqsUpTo(Names, 1)} \cup {<<>>, <<"a">>}}

Requests == RelativeRequests \cup AbsoluteRequests

Parent(p) == IF p = <<>> THEN <<>> ELSE SubSeq(p, 1, Len(p) - 1)

Last(p) == p[Len(p)]

\* PurePath parsing drops "." components.
Parts(segs) == SelectSeq(segs, LAMBDA x : x # Dot)

\* working_dir / file_path: an absolute right operand replaces the left one.
Join(base, req) == IF req.abs THEN Parts(req.segs) ELSE base \o Parts(req.segs)

\* Path.resolve() without symbolic links: ".." removes the component before
\* it, and "/.." is "/".
RECURSIVE Resolve(_)
Resolve(raw) ==
    IF raw = <<>> THEN <<>>
    ELSE LET front == Resolve(Parent(raw))
         IN  IF Last(raw) = DotDot THEN Parent(front) ELSE Append(front, Last(raw))

\* Path(file_path).name: the final component, "" when there is none.
BaseName(req) ==
    LET ps == Parts(req.segs) IN IF ps = <<>> THEN "" ELSE Last(ps)

IsPrefix(p, q) == Len(p) <= Len(q) /\ SubSeq(q, 1, Len(p)) = p

\* A check that lets every path through: what the containment properties
\* tell the code's check from.
NoContainmentCheck(p, base) == TRUE

\* target.relative_to(working_dir) succeeds: a comparison of components.
RelativeToOk(p, base) == IsPrefix(base, p)

\* file_path.lower().endswith('.py')
EndsWithPy(req) == req.segs # <<>> /\ Last(req.segs) \in PyNames

\* ------------------------------------------------------------- filesystem

DirEntry == [kind |-> "dir", content |-> <<>>]
FileEntry(c) == [kind |-> "file", content |-> c]
\* A socket: is_file() and is_dir() are both false of it, and open() raises.
OtherEntry == [kind |-> "other", content |-> <<>>]

\* What the kernel finds at a path: the canonical path of the entry, or
\* NoEntry.  Every component but the last must be a directory; ".." is the
\* parent directory.
NoEntry == <<"?">>

RECURSIVE Lookup(_, _)
Lookup(f, raw) ==
    IF raw = <<>> THEN <<>>
    ELSE LET dir == Lookup(f, Parent(raw))
         IN  IF dir = NoEntry \/ f[dir].kind # "dir" THEN NoEntry
             ELSE IF Last(raw) = DotDot THEN Parent(dir)
             ELSE IF Append(dir, Last(raw)) \in DOMAIN f THEN Append(dir, Last(raw))
             ELSE NoEntry

Exists(f, raw) == Lookup(f, raw) # NoEntry
IsDir(f, raw) == Exists(f, raw) /\ f[Lookup(f, raw)].kind = "dir"
IsFile(f, raw) == Exists(f, raw) /\ f[Lookup(f, raw)].kind = "file"

\* The children of directory d in iteration order.
Children(f, order, d) == SelectSeq(order, LAMBDA n : Append(d, n) \in DOMAIN f)

RECURSIVE Flatten(_)
Flatten(ss) == IF ss = <<>> THEN <<>> ELSE Head(ss) \o Flatten(Tail(ss))

\* The directories that "**" visits from d: d itself, then each
\* subdirectory's walk, in iteration order; none when d is no directory.
RECURSIVE Walk(_, _, _)
Walk(f, order, d) ==
    IF ~IsDir(f, d) THEN <<>>
    ELSE LET subs == SelectSeq(Children(f, order, d),
                               LAMBDA n : f[Append(d, n)].kind = "dir")
         IN  <<d>> \o Flatten([i \in 1..Len(subs) |-> Walk(f, order, Append(d, subs[i]))])

\* A pattern's components matched from directory d: a name before the last
\* must be a directory, the last must exist; ".." is not checked.
RECURSIVE Selects(_, _, _)
Selects(f, d, pattern) ==
    IF pattern = <<>> THEN TRUE
    ELSE LET step == Append(d, Head(pattern))
         IN  /\ IsDir(f, d)
             /\ \/ Head(pattern) = DotDot
                \/ IF Len(pattern) > 1 THEN IsDir(f, step) ELSE Exists(f, step)
             /\ Selects(f, step, Tail(pattern))

\* list(working_dir.rglob(pattern)): one match per visited directory.
Rglob(f, order, base, pattern) ==
    LET visited == Walk(f, order, base)
        hits == SelectSeq(visited, LAMBDA d : Selects(f, d, pattern))
    IN  [i \in 1..Len(hits) |-> hits[i] \o pattern]

Utf8Len(ch) == IF ch = "eacute" THEN 2 ELSE 1

RECURSIVE ByteSize(_)
ByteSize(c) == IF c = <<>> THEN 0 ELSE Utf8Len(Head(c)) + ByteSize(Tail(c))

\* Path.mkdir(parents=True, exist_ok=True): the missing directories down to
\* p are created; a regular file on the way makes it raise, creating nothing.
Prefixes(p) == {SubSeq(p, 1, k) : k \in 0..Len(p)}

\* mkdir without parents=True also raises when the parent of p is missing.
MkdirWithoutParents(f, p) ==
    \/ \E q \in Prefixes(p) : q \in DOMAIN f /\ f[q].kind # "dir"
    \/ (p \notin DOMAIN f /\ Parent(p) \notin DOMAIN f)

MkdirFails(f, p) == \E q \in Prefixes(p) : q \in DOMAIN f /\ f[q].kind # "dir"
Mkdir(f, p) ==
    [q \in DOMAIN f \cup Prefixes(p) |-> IF q \in DOMAIN f THEN f[q] ELSE DirEntry]

\* ------------------------------------------------------------------- text

MAX_FILE_CONTENT_LENGTH == 10240

\* Text-mode write on POSIX: "\n" becomes os.linesep, which is "\n".
LineSep == <<LF>>
EncodeNewlines(c) == Flatten([i \in 1..Len(c) |-> IF c[i] = LF THEN LineSep ELSE <<c[i]>>])

\* Text-mode read (f.read(), newline=None): "\r\n" and "\r" become "\n".
UniversalNewlines(c) ==
    IF \A i \in 1..Len(c) : c[i] # CR THEN c
    ELSE LET dropped == {i \in 2..Len(c) : c[i] = LF /\ c[i - 1] = CR}
             at(k) == CHOOSE i \in k..(k + Cardinality(dropped)) :
                          i \notin dropped /\ i - Cardinality({r \in dropped : r < i}) = k
         IN  [k \in 1..(Len(c) - Cardinality(dropped)) |->
                 IF c[at(k)] = CR THEN LF ELSE c[at(k)]]

\* ---------------------------------------------------------------- results

\* The text an operation returns, by kind, with the values it is built from.
Result(kind, req) ==
    [kind |-> kind, path |-> req, text |-> <<>>, marked |-> FALSE, limit |-> 0,
     count |-> 0, lines |-> <<>>, parts |-> <<>>]

\* What a call did: the result, the filesystem it left, the path it acted
\* on, whether it ran the recursive search, and the children it spawned.
Outcome(res, f, target, searched, spawned) ==
    [result |-> res, fs |-> f, target |-> target, searched |-> searched, spawned |-> spawned]

\* ----------------------------------------------------------- get_files_info

\* No request is the special one: "." is resolved and searched as any other.
NoDotRequest(req) == FALSE

\* directory == "."
IsDotRequest(req) == req.abs = FALSE /\ req.segs = <<Dot>>

\* entry.stat().st_size if entry.is_file() else 0, and entry.is_dir().
ListLine(f, d, n) ==
    LET e == f[Append(d, n)]
    IN  IF e.kind = "file"
        THEN [name |-> n, file_size |-> ByteSize(e.content), is_dir |-> FALSE]
        ELSE [name |-> n, file_size |-> 0, is_dir |-> TRUE]

\* for item in target_dir.iterdir(): a line if item.is_file(), a line if
\* item.is_dir(), and nothing otherwise.
ListDirectory(f, order, d) ==
    LET names == SelectSeq(Children(f, order, d),
                           LAMBDA n : f[Append(d, n)].kind \in {"file", "dir"})
    IN  [i \in 1..Len(names) |-> ListLine(f, d, names[i])]

get_files_info(f, order, req) ==
    LET literal == IF IsDotRequest(req) THEN Root ELSE Resolve(Join(Root, req))
        searched == ~Exists(f, literal) /\ ~IsDotRequest(req)
        found == IF searched /\ ~req.abs THEN Rglob(f, order, Root, Parts(req.segs)) ELSE <<>>
        target == IF found # <<>> THEN found[1] ELSE literal
    IN  IF ~RelativeToOk(literal, Root)
        THEN Outcome(Result("AccessDenied", req), f, NoEntry, FALSE, <<>>)
        ELSE IF searched /\ req.abs
        THEN Outcome(Result("Raised", req), f, NoEntry, TRUE, <<>>)
        ELSE IF searched /\ found = <<>>
        THEN Outcome(Result("NotFound", req), f, NoEntry, TRUE, <<>>)
        ELSE IF ~RelativeToOk(target, Root)
        THEN Outcome(Result("AccessDenied", req), f, NoEntry, TRUE, <<>>)
        ELSE IF ~IsDir(f, target)
        THEN Outcome(Result("NotADirectory", req), f, target, searched, <<>>)
        ELSE Outcome([Result("Listing", req) EXCEPT
                          !.lines = ListDirectory(f, order, Lookup(f, target))],
                     f, target, searched, <<>>)

\* --------------------------------------------------------- get_file_content

\* A search whose order of matches depends on whether a call was made
\* before: the first call gets them in traversal order, a later one reversed.
FindByTurns(f, order, req) ==
    LET hits == Rglob(f, order, Root, <<BaseName(req)>>)
    IN  IF last.op = "none" THEN hits
        ELSE [i \in 1..Len(hits) |-> hits[Len(hits) + 1 - i]]

\* A search of the root directory alone (glob in place of rglob).
FindInRootOnly(f, order, req) ==
    IF Selects(f, Root, <<BaseName(req)>>) THEN <<Append(Root, BaseName(req))>> ELSE <<>>

\* The recursive search of the three file operations, by the name of the
\* requested path.
FindByName(f, order, req) == Rglob(f, order, Root, <<BaseName(req)>>)

\* Truncation that also cuts a text exactly as long as the limit.
TruncateFromLimit(content, req) ==
    IF Len(content) >= MAX_FILE_CONTENT_LENGTH
    THEN [Result("Content", req) EXCEPT
              !.text = SubSeq(content, 1, MAX_FILE_CONTENT_LENGTH),
              !.marked = TRUE, !.limit = MAX_FILE_CONTENT_LENGTH]
    ELSE [Result("Content", req) EXCEPT !.text = content]

\* content[:MAX_FILE_CONTENT_LENGTH] and the marker, when the text is longer.
Truncate(content, req) ==
    IF Len(content) > MAX_FILE_CONTENT_LENGTH
    THEN [Result("Content", req) EXCEPT
              !.text = SubSeq(content, 1, MAX_FILE_CONTENT_LENGTH),
              !.marked = TRUE, !.limit = MAX_FILE_CONTENT_LENGTH]
    ELSE [Result("Content", req) EXCEPT !.text = content]

\* The read with the existence check put before the containment check.
get_file_content_existence_first(f, order, req) ==
    LET literal == Resolve(Join(Root, req))
        searched == ~Exists(f, literal)
        found == IF searched THEN FindByName(f, order, req) ELSE <<>>
        target == IF found # <<>> THEN found[1] ELSE literal
    IN  IF searched /\ found = <<>>
        THEN Outcome(Result("NotFound", req), f, NoEntry, TRUE, <<>>)
        ELSE IF ~RelativeToOk(literal, Root) \/ ~RelativeToOk(target, Root)
        THEN Outcome(Result("AccessDenied", req), f, NoEntry, searched, <<>>)
        ELSE IF ~IsFile(f, target)
        THEN Outcome(Result("NotAFile", req), f, target, searched, <<>>)
        ELSE Outcome(Truncate(UniversalNewlines(f[Lookup(f, target)].content), req),
                     f, target, searched, <<>>)

get_file_content(f, order, req) ==
    LET literal == Resolve(Join(Root, req))
        searched == ~Exists(f, literal)
        found == IF searched THEN FindByName(f, order, req) ELSE <<>>
        target == IF found # <<>> THEN found[1] ELSE literal
    IN  IF ~RelativeToOk(literal, Root)
        THEN Outcome(Result("AccessDenied", req), f, NoEntry, FALSE, <<>>)
        ELSE IF searched /\ found = <<>>
        THEN Outcome(Result("NotFound", req), f, NoEntry, TRUE, <<>>)
        ELSE IF ~RelativeToOk(target, Root)
        THEN Outcome(Result("AccessDenied", req), f, NoEntry, TRUE, <<>>)
        ELSE IF ~IsFile(f, target)
        THEN Outcome(Result("NotAFile", req), f, target, searched, <<>>)
        ELSE Outcome(Truncate(UniversalNewlines(f[Lookup(f, target)].content), req),
                     f, target, searched, <<>>)

\* ---------------------------------------------------------------- write_file

\* A search that runs whenever the literal target is missing, as in the two
\* other file operations.
SearchesWhenMissing(f, literal) == ~Exists(f, literal)

\* The search runs when neither the literal target nor its parent exists.
WriteSearches(f, literal) == ~Exists(f, literal) /\ ~Exists(f, Parent(literal))

\* Mode 'a' keeps what the file held.
OpenForAppending(old) == old

\* open(target_file, 'w') empties the file.
OpenForWriting(old) == <<>>

\* The count of the bytes written.
BytesWritten(content) == ByteSize(content)

\* len(content) in the success message.
CharactersWritten(content) == Len(content)

\* target_file.parent.mkdir(parents=True, exist_ok=True), then
\* open(target_file, 'w') and f.write(content).
WriteTo(f, target, content, req) ==
    IF MkdirFails(f, Parent(target))
    THEN [fs |-> f, result |-> Result("IOError", req)]
    ELSE LET made == Mkdir(f, Parent(target))
         IN  IF Exists(made, target) /\ ~IsFile(made, target)
             THEN [fs |-> made, result |-> Result("IOError", req)]
             ELSE LET old == IF target \in DOMAIN made THEN made[target].content ELSE <<>>
                  IN  [fs |-> [q \in DOMAIN made \cup {target} |->
                                  IF q = target
                                  THEN FileEntry(OpenForWriting(old) \o EncodeNewlines(content))
                                  ELSE made[q]],
                       result |-> [Result("WriteOk", req) EXCEPT
                                       !.count = CharactersWritten(content)]]

\* A write that makes the parent directories of the literal path before it
\* checks containment.
write_file_mkdir_first(f, order, req, content) ==
    LET literal == Resolve(Join(Root, req))
        made == IF MkdirFails(f, Parent(literal)) THEN f ELSE Mkdir(f, Parent(literal))
        w == WriteTo(made, literal, content, req)
    IN  IF ~RelativeToOk(literal, Root)
        THEN Outcome(Result("AccessDenied", req), made, NoEntry, FALSE, <<>>)
        ELSE Outcome(w.result, w.fs, literal, FALSE, <<>>)

write_file(f, order, req, content) ==
    LET literal == Resolve(Join(Root, req))
        searched == WriteSearches(f, literal)
        found == IF searched THEN FindByName(f, order, req) ELSE <<>>
        target == IF found # <<>> THEN found[1] ELSE literal
    IN  IF ~RelativeToOk(literal, Root)
        THEN Outcome(Result("AccessDenied", req), f, NoEntry, FALSE, <<>>)
        ELSE IF ~RelativeToOk(target, Root)
        THEN Outcome(Result("AccessDenied", req), f, NoEntry, TRUE, <<>>)
        ELSE LET w == WriteTo(f, target, content, req)
             IN  Outcome(w.result, w.fs, target, searched, <<>>)

\* ----------------------------------------------------------- run_python_file

\* How subprocess.run(cmd, timeout=30, capture_output=True, text=True, ...)
\* can end.  What the child wrote is empty, text, or bytes that are no
\* UTF-8 text.
Undecodable == <<"xFF">>
Streams == {<<>>, <<"o">>, Undecodable}
ChildEnds ==
    {[how |-> "exit", stdout |-> o, stderr |-> e, returncode |-> rc] :
        o \in Streams, e \in Streams, rc \in {0, 1}}
    \cup {[how |-> h, stdout |-> <<>>, stderr |-> <<>>, returncode |-> 0] :
        h \in {"timeout", "no_interpreter", "error"}}

ArgLists == {<<>>, <<"arg">>}

Block(tag, text, code) == [tag |-> tag, text |-> text, code |-> code]

FormatOutput(end, req) ==
    LET parts == (IF end.stdout # <<>> THEN <<Block("STDOUT", end.stdout, 0)>> ELSE <<>>)
                 \o (IF end.stderr # <<>> THEN <<Block("STDERR", end.stderr, 0)>> ELSE <<>>)
                 \o (IF end.returncode # 0
                     THEN <<Block("EXIT", <<>>, end.returncode)>> ELSE <<>>)
    IN  IF parts # <<>> THEN [Result("Output", req) EXCEPT !.parts = parts]
        ELSE Result("NoOutput", req)

\* cmd = ["python", str(target_file)] + args, run in working_dir.
Spawn(target, args) == [file |-> target, args |-> args, cwd |-> Root]

Execute(f, target, searched, args, end, req) ==
    IF end.how = "no_interpreter"
    THEN Outcome(Result("InterpreterMissing", req), f, target, searched, <<>>)
    ELSE IF end.how = "error"
    THEN Outcome(Result("ExecError", req), f, target, searched, <<>>)
    ELSE IF end.how = "timeout"
    THEN Outcome(Result("Timeout", req), f, target, searched, <<Spawn(target, args)>>)
    ELSE IF Undecodable \in {end.stdout, end.stderr}
    THEN Outcome(Result("ExecError", req), f, target, searched, <<Spawn(target, args)>>)
    ELSE Outcome(FormatOutput(end, req), f, target, searched, <<Spawn(target, args)>>)

\* The checks with the extension tested first.
RunChecksExtensionFirst(f, order, req) ==
    LET literal == Resolve(Join(Root, req))
        searched == ~Exists(f, literal)
        found == IF searched THEN FindByName(f, order, req) ELSE <<>>
        target == IF found # <<>> THEN found[1] ELSE literal
    IN  IF ~EndsWithPy(req)
        THEN Outcome(Result("WrongFileType", req), f, NoEntry, FALSE, <<>>)
        ELSE IF ~RelativeToOk(literal, Root)
        THEN Outcome(Result("AccessDenied", req), f, NoEntry, FALSE, <<>>)
        ELSE IF searched /\ found = <<>>
        THEN Outcome(Result("NotFound", req), f, NoEntry, TRUE, <<>>)
        ELSE IF ~RelativeToOk(target, Root)
        THEN Outcome(Result("AccessDenied", req), f, NoEntry, TRUE, <<>>)
        ELSE IF ~IsFile(f, target)
        THEN Outcome(Result("NotAFile", req), f, target, searched, <<>>)
        ELSE Outcome(Result("spawn", req), f, target, searched, <<>>)

\* The checks before the child is started; kind "spawn" when they all pass.
RunChecks(f, order, req) ==
    LET literal == Resolve(Join(Root, req))
        searched == ~Exists(f, literal)
        found == IF searched THEN FindByName(f, order, req) ELSE <<>>
        target == IF found # <<>> THEN found[1] ELSE literal
    IN  IF ~RelativeToOk(literal, Root)
        THEN Outcome(Result("AccessDenied", req), f, NoEntry, FALSE, <<>>)
        ELSE IF searched /\ found = <<>>
        THEN Outcome(Result("NotFound", req), f, NoEntry, TRUE, <<>>)
        ELSE IF ~RelativeToOk(target, Root)
        THEN Outcome(Result("AccessDenied", req), f, NoEntry, TRUE, <<>>)
        ELSE IF ~IsFile(f, target)
        THEN Outcome(Result("NotAFile", req), f, target, searched, <<>>)
        ELSE IF ~EndsWithPy(req)
        THEN Outcome(Result("WrongFileType", req), f, target, searched, <<>>)
        ELSE Outcome(Result("spawn", req), f, target, searched, <<>>)

run_python_file(f, order, req, args, end) ==
    LET checked == RunChecks(f, order, req)
    IN  IF checked.result.kind # "spawn" THEN checked
        ELSE Execute(f, checked.target, checked.searched, args, end, req)

NoChild == [how |-> "none", stdout |-> <<>>, stderr |-> <<>>, returncode |-> 0]

\* The ends a call can meet: those of its child, when it starts one.
EndsOf(f, order, req) ==
    IF RunChecks(f, order, req).result.kind = "spawn" THEN ChildEnds ELSE {NoChild}

\* -------------------------------------------------------------- the machine

UnderRoot(p) == IsPrefix(Root, p) /\ p # Root

\* "/", the sandbox root /w and the file /a beside it.
Skeleton ==
    [p \in {FsRoot, Root, <<"a">>} |-> IF p = <<"a">> THEN FileEntry(<<"x">>) ELSE DirEntry]

\* The same without the sandbox root: working_directory names nothing.
Rootless == [p \in {FsRoot, <<"a">>} |-> Skeleton[p]]

Slots(f) ==
    {Append(d, n) : d \in {q \in DOMAIN f : IsPrefix(Root, q) /\ f[q].kind = "dir"},
                    n \in Names} \ DOMAIN f

Add(f, p, e) == [q \in DOMAIN f \cup {p} |-> IF q = p THEN e ELSE f[q]]

RECURSIVE TreesUpTo(_, _)
TreesUpTo(k, entries) ==
    IF k = 0 THEN {Skeleton}
    ELSE LET smaller == TreesUpTo(k - 1, entries)
         IN  smaller \cup UNION {{Add(t, p, e) : p \in Slots(t), e \in entries} : t \in smaller}

Orders == {o \in [1..Cardinality(Names) -> Names] : \A i, j \in DOMAIN o : o[i] = o[j] => i = j}

NoCall ==
    [op |-> "none", req |-> [abs |-> FALSE, segs |-> <<>>], content |-> <<>>, args |-> <<>>,
     result |-> Result("none", [abs |-> FALSE, segs |-> <<>>]), target |-> NoEntry,
     searched |-> FALSE, spawned |-> <<>>, child |-> NoChild, before |-> Skeleton]

\* The filesystem is all the state one call leaves to the next, so a
\* behaviour is one call on a tree drawn from every tree within the bound.
\* No run_python_file call is in progress and no child exists.
NoProc ==
    [pc |-> "idle", clock |-> 0, child |-> "none", started |-> 0,
     req |-> [abs |-> FALSE, segs |-> <<>>], args |-> <<>>, target |-> NoEntry,
     searched |-> FALSE]

\* main before its first argument is looked at: no prompt (None is the
\* empty sequence, a prompt the one-element sequence of its text), not
\* verbose, nothing printed, run_agent never called.
NoMain ==
    [pc |-> "parse", argv |-> <<>>, i |-> 1, prompt |-> <<>>,
     verbose |-> FALSE, iteration |-> 0, reports |-> <<>>, out |-> <<>>,
     code |-> 0]

\* The prompt main puts first in the conversation.
NoRequest == [abs |-> FALSE, segs |-> <<>>]

Message(role, kind, of, result) ==
    [role |-> role, kind |-> kind, of |-> of, result |-> result]

UserPrompt == Message("user", "prompt", 0, Result("none", NoRequest))

\* No model response yet.
NoResponse ==
    [present |-> FALSE, usage |-> FALSE, candidates |-> <<>>, function_calls |-> <<>>]

\* run_agent before its call of the model.
NoAgent ==
    [pc |-> "start", verbose |-> FALSE, messages |-> <<UserPrompt>>,
     given |-> <<UserPrompt>>, response |-> NoResponse, k |-> 1,
     has_function_calls |-> FALSE, returned |-> FALSE, failed |-> FALSE,
     done |-> <<>>]

InitWith(trees) ==
    /\ fs \in trees
    /\ scan \in Orders
    /\ last = [NoCall EXCEPT !.before = fs]
    /\ proc = NoProc
    /\ main = NoMain
    /\ agent = NoAgent

Init == InitWith(TreesUpTo(MaxEntries, {DirEntry, FileEntry(Old)}))

Returns(op, req, content, args, end, out) ==
    /\ fs' = out.fs
    /\ scan' = scan
    /\ last' = [op |-> op, req |-> req, content |-> content, args |-> args,
                result |-> out.result, target |-> out.target, searched |-> out.searched,
                spawned |-> out.spawned, child |-> end, before |-> fs]

Idle == last.op = "none"

GetFilesInfo ==
    /\ Idle
    /\ \E req \in Requests :
           Returns("get_files_info", req, <<>>, <<>>, NoChild, get_files_info(fs, scan, req))
    /\ UNCHANGED <<proc, main, agent>>

GetFileContent ==
    /\ Idle
    /\ \E req \in Requests :
           Returns("get_file_content", req, <<>>, <<>>, NoChild, get_file_content(fs, scan, req))
    /\ UNCHANGED <<proc, main, agent>>

WriteFile ==
    /\ Idle
    /\ \E req \in Requests, content \in Contents :
           Returns("write_file", req, content, <<>>, NoChild, write_file(fs, scan, req, content))
    /\ UNCHANGED <<proc, main, agent>>

RunPythonFile ==
    /\ Idle
    /\ \E req \in Requests, args \in ArgLists :
           \E end \in EndsOf(fs, scan, req) :
               Returns("run_python_file", req, <<>>, args, end,
                       run_python_file(fs, scan, req, args, end))
    /\ UNCHANGED <<proc, main, agent>>

Next == GetFilesInfo \/ GetFileContent \/ WriteFile \/ RunPythonFile

Spec == Init /\ [][Next]_vars

\* write_file alone, on larger trees.
InitWrite == InitWith(TreesUpTo(MaxWriteEntries, {DirEntry, FileEntry(Old)}))
SpecWrite == InitWrite /\ [][WriteFile]_vars

\* get_files_info alone, on trees whose files differ in size and which hold
\* sockets too, and where the root is missing.
ListedEntries == {DirEntry, OtherEntry} \cup {FileEntry(c) : c \in Contents \cup {Old}}
InitList == InitWith(TreesUpTo(MaxEntries, ListedEntries) \cup {Rootless})
SpecList == InitList /\ [][GetFilesInfo]_vars

\* get_file_content alone, on files about as long as the limit: every
\* character is "x" but the last, which is "z".
LongText(n) == [i \in 1..n |-> IF i = n THEN "z" ELSE "x"]
LongTexts ==
    {LongText(n) : n \in {MAX_FILE_CONTENT_LENGTH - 1, MAX_FILE_CONTENT_LENGTH,
                          MAX_FILE_CONTENT_LENGTH + 1}} \cup {Old}
LongTrees ==
    {Add(Skeleton, <<RootName, "a">>, FileEntry(t)) : t \in LongTexts}
    \cup {Add(Add(Skeleton, <<RootName, "m.py">>, DirEntry),
              <<RootName, "m.py", "a">>, FileEntry(t)) : t \in LongTexts}
InitRead == InitWith(LongTrees)
SpecRead == InitRead /\ [][GetFileContent]_vars

\* ------------------------------------------------- run_python_file in steps

\* subprocess.run(cmd, timeout=30, ...) step by step: the child is started,
\* the caller waits for it while the seconds pass, and either collects what
\* the child wrote when it has exited, or, when the timeout is reached first,
\* kills it, waits for it and reports the timeout.

\* timeout=30
TimeoutSeconds == 30

\* A wait without timeout never gives up.
NeverExpired(clock) == FALSE

\* The deadline of communicate(timeout=30) has passed.
Expired(clock) == clock >= TimeoutSeconds

\* The child is left as it is.
LeftRunning(child) == child

\* process.kill()
Kill(child) == "killed"

\* process.wait(), and the wait at the end of "with Popen(...)".
Wait(child) == "reaped"

Spawnable(req) == RunChecks(fs, scan, req).result.kind = "spawn"

\* The call returns without a child: a check fails, or Popen raises.
RunRefused ==
    /\ Idle
    /\ proc.pc = "idle"
    /\ \E req \in Requests, args \in ArgLists :
           \E end \in IF Spawnable(req)
                      THEN {e \in ChildEnds : e.how \in {"no_interpreter", "error"}}
                      ELSE {NoChild} :
               Returns("run_python_file", req, <<>>, args, end,
                       run_python_file(fs, scan, req, args, end))
    /\ UNCHANGED <<proc, main, agent>>

\* Popen(cmd): the child runs.
RunSpawn ==
    /\ Idle
    /\ proc.pc = "idle"
    /\ \E req \in Requests, args \in ArgLists :
           /\ Spawnable(req)
           /\ proc' = [pc |-> "waiting", clock |-> 0, child |-> "running",
                       started |-> proc.started + 1, req |-> req, args |-> args,
                       target |-> RunChecks(fs, scan, req).target,
                       searched |-> RunChecks(fs, scan, req).searched]
    /\ UNCHANGED <<fs, scan, last, main, agent>>

\* A second passes while the caller waits; the clock is read up to the
\* timeout.
Tick ==
    /\ proc.pc = "waiting"
    /\ proc.clock < TimeoutSeconds
    /\ proc' = [proc EXCEPT !.clock = @ + 1]
    /\ UNCHANGED <<fs, scan, last, main, agent>>

\* The child ends by itself; it may never do so.
ChildExit ==
    /\ proc.pc = "waiting"
    /\ proc.child = "running"
    /\ proc' = [proc EXCEPT !.child = "exited"]
    /\ UNCHANGED <<fs, scan, last, main, agent>>

\* communicate() returns what the child wrote and its exit code.
Collect ==
    /\ proc.pc = "waiting"
    /\ proc.child = "exited"
    /\ \E end \in {e \in ChildEnds : e.how = "exit"} :
           Returns("run_python_file", proc.req, <<>>, proc.args, end,
                   Execute(fs, proc.target, proc.searched, proc.args, end, proc.req))
    /\ proc' = [proc EXCEPT !.pc = "returned", !.child = Wait(@)]
    /\ UNCHANGED <<main, agent>>

\* TimeoutExpired: the child is killed.
Expire ==
    /\ proc.pc = "waiting"
    /\ proc.child = "running"
    /\ Expired(proc.clock)
    /\ proc' = [proc EXCEPT !.pc = "killing", !.child = Kill(@)]
    /\ UNCHANGED <<fs, scan, last, main, agent>>

\* The killed child is waited for and the timeout is reported; a child
\* that was not killed would not be waited for.
Reap ==
    /\ proc.pc = "killing"
    /\ \E end \in {e \in ChildEnds : e.how = "timeout"} :
           Returns("run_python_file", proc.req, <<>>, proc.args, end,
                   Execute(fs, proc.target, proc.searched, proc.args, end, proc.req))
    /\ proc' = [proc EXCEPT !.pc = "returned",
                              !.child = IF @ = "killed" THEN Wait(@) ELSE @]
    /\ UNCHANGED <<main, agent>>

\* The most entries under the root in an initial tree of this machine.
MaxRunEntries == 1

InitRun == InitWith(TreesUpTo(MaxRunEntries, {DirEntry, FileEntry(Old)}))

NextRun == RunRefused \/ RunSpawn \/ Tick \/ ChildExit \/ Collect \/ Expire \/ Reap

\* The caller's own steps and the passing of time go on; the child owes
\* nothing.
SpecRun ==
    /\ InitRun
    /\ [][NextRun]_vars
    /\ WF_vars(Tick)
    /\ WF_vars(Collect)
    /\ WF_vars(Expire)
    /\ WF_vars(Reap)

\* ------------------------------------------------------------------- main

MaxArgs == 3

max_iterations == 20

\* The arguments main is given: its flags in both spellings, an option it
\* does not know, and plain text.
Arguments == {"--prompt", "-p", "--verbose", "-v", "--help", "-h", "--x", "text"}

CommandLines == UNION {[1..n -> Arguments] : n \in 0..MaxArgs}

\* arg.startswith("--"), on the arguments above.
StartsWithTwoDashes(arg) == arg \in {"--prompt", "--verbose", "--help", "--x"}

\* The test that refuses --prompt: nothing follows it, or what follows
\* starts with two dashes.  argv[k] is sys.argv[k].
PromptValueMissing(argv, i) ==
    \/ i + 1 > Len(argv)
    \/ StartsWithTwoDashes(argv[i + 1])

Line(text, n) == [line |-> text, n |-> n]

Printed(text) == \E k \in 1..Len(main.out) : main.out[k].line = text

Exit(text, code) ==
    main' = [main EXCEPT !.pc = "exited", !.code = code,
                         !.out = Append(@, Line(text, 0))]

\* One turn of the loop over sys.argv.
ParseArg ==
    /\ main.pc = "parse"
    /\ main.i <= Len(main.argv)
    /\ LET arg == main.argv[main.i]
       IN  CASE arg \in {"--help", "-h"} -> Exit("help", 0)
             [] arg \in {"--prompt", "-p"} ->
                    IF PromptValueMissing(main.argv, main.i)
                    THEN Exit("Error: --prompt requires a value", 1)
                    ELSE main' = [main EXCEPT !.prompt = <<main.argv[main.i + 1]>>,
                                              !.i = @ + 2]
             [] arg \in {"--verbose", "-v"} ->
                    main' = [main EXCEPT !.verbose = TRUE, !.i = @ + 1]
             [] OTHER ->
                    main' = [main EXCEPT
                                !.prompt = IF @ = <<>> THEN <<arg>> ELSE @,
                                !.i = @ + 1]
    /\ UNCHANGED <<fs, scan, last, proc, agent>>

\* After the last argument: no prompt is an error, else the conversation
\* is set up and the loop is entered.
EndParse ==
    /\ main.pc = "parse"
    /\ main.i > Len(main.argv)
    /\ IF main.prompt = <<>>
       THEN Exit("Error: --prompt is required.", 1)
       ELSE main' = [main EXCEPT
                        !.pc = "loop",
                        !.out = IF main.verbose
                                THEN Append(@, Line("User's prompt", 0))
                                ELSE @]
    /\ UNCHANGED <<fs, scan, last, proc, agent>>

\* while iteration <= max_iterations
LoopContinuesInclusive(iteration) == iteration <= max_iterations

\* while iteration < max_iterations
LoopContinues(iteration) == iteration < max_iterations

\* What a call of run_agent comes to for main: it reports function calls,
\* it reports none, or an exception leaves it.
Reports == {"calls", "none", "raised"}

\* One turn of the agent loop: run_agent is called; on no function calls
\* the loop is left, else the turn is counted.
RunAgent ==
    /\ main.pc = "loop"
    /\ LoopContinues(main.iteration)
    /\ \E report \in Reports :
           main' =
               CASE report = "raised" ->
                        [main EXCEPT !.pc = "crashed",
                                     !.reports = Append(@, report)]
                 [] report = "none" ->
                        [main EXCEPT !.pc = "after",
                                     !.reports = Append(@, report)]
                 [] report = "calls" ->
                        [main EXCEPT
                            !.reports = Append(@, report),
                            !.iteration = @ + 1,
                            !.out = IF main.verbose
                                    THEN Append(@, Line("Agent iteration completed",
                                                        main.iteration + 1))
                                    ELSE @]
    /\ UNCHANGED <<fs, scan, last, proc, agent>>

\* The loop's condition fails.
LoopEnds ==
    /\ main.pc = "loop"
    /\ ~LoopContinues(main.iteration)
    /\ main' = [main EXCEPT !.pc = "after"]
    /\ UNCHANGED <<fs, scan, last, proc, agent>>

\* After the loop: the warning when the counter reached the maximum; main
\* returns.
Finish ==
    /\ main.pc = "after"
    /\ main' = [main EXCEPT
                    !.pc = "done",
                    !.out = IF main.iteration >= max_iterations
                            THEN Append(@, Line("Warning: Maximum iterations reached", 0))
                            ELSE @]
    /\ UNCHANGED <<fs, scan, last, proc, agent>>

InitMain ==
    /\ fs = Skeleton
    /\ scan = CHOOSE o \in Orders : TRUE
    /\ last = [NoCall EXCEPT !.before = fs]
    /\ proc = NoProc
    /\ agent = NoAgent
    /\ \E argv \in CommandLines : main = [NoMain EXCEPT !.argv = argv]

NextMain == ParseArg \/ EndParse \/ RunAgent \/ LoopEnds \/ Finish

SpecMain == InitMain /\ [][NextMain]_vars

\* ---------------------------------------------------------- call_function

\* An entry of the arguments of a function call: given with a value, or
\* not given.
Given(v) == [given |-> TRUE, value |-> v]
Missing(v) == [given |-> FALSE, value |-> v]

DotRequest == [abs |-> FALSE, segs |-> <<Dot>>]

FunctionCall(name, directory, file_path, content, args) ==
    [name |-> name, directory |-> directory, file_path |-> file_path,
     content |-> content, args |-> args]

NoPath == Missing(NoRequest)
NoContent == Missing(<<>>)
NoArgs == Missing(<<>>)

\* The file and the directory the model asks for, the latter as an
\* absolute path under the root.
AskedFile == Given([abs |-> FALSE, segs |-> <<"m.py">>])
AskedDirectory == Given([abs |-> TRUE, segs |-> <<RootName, "a">>])

\* The function calls a response can hold: each operation with and without
\* its arguments, and a function there is none of.
FunctionCalls ==
    {FunctionCall("get_files_info", d, NoPath, NoContent, NoArgs) :
        d \in {NoPath, AskedDirectory}}
    \cup {FunctionCall("get_file_content", NoPath, p, NoContent, NoArgs) :
        p \in {NoPath, AskedFile}}
    \cup {FunctionCall("write_file", NoPath, NoPath, Given(<<"eacute", CR>>), NoArgs),
          FunctionCall("write_file", NoPath, AskedFile, NoContent, NoArgs),
          FunctionCall("write_file", NoPath, AskedFile, Given(<<"eacute", CR>>), NoArgs)}
    \cup {FunctionCall("run_python_file", NoPath, NoPath, NoContent, NoArgs),
          FunctionCall("run_python_file", NoPath, AskedFile, NoContent, NoArgs),
          FunctionCall("run_python_file", NoPath, AskedFile, NoContent, Given(<<"arg">>))}
    \cup {FunctionCall("delete_file", NoPath, AskedFile, NoContent, NoArgs)}

\* args.get("directory", ".") with the empty string for the default.
DirectoryOrEmpty(call) ==
    IF call.directory.given THEN call.directory.value ELSE NoRequest

\* args.get("directory", ".")
DirectoryOf(call) ==
    IF call.directory.given THEN call.directory.value ELSE DotRequest

\* args.get("args", [])
ArgsOf(call) == IF call.args.given THEN call.args.value ELSE <<>>

\* What call_function did: the outcome of the operation it invoked, with
\* the operations invoked; or an error text of its own, nothing invoked.
Invoked(name, out) ==
    [result |-> out.result, fs |-> out.fs, target |-> out.target,
     searched |-> out.searched, spawned |-> out.spawned, invoked |-> <<name>>]

Declined(kind, f) ==
    [result |-> Result(kind, NoRequest), fs |-> f, target |-> NoEntry,
     searched |-> FALSE, spawned |-> <<>>, invoked |-> <<>>]

call_function(f, order, call, end) ==
    CASE call.name = "get_files_info" ->
             Invoked(call.name, get_files_info(f, order, DirectoryOf(call)))
      [] call.name = "get_file_content" ->
             IF ~call.file_path.given
             THEN Declined("MissingArgument", f)
             ELSE Invoked(call.name, get_file_content(f, order, call.file_path.value))
      [] call.name = "write_file" ->
             IF ~call.file_path.given \/ ~call.content.given
             THEN Declined("MissingArgument", f)
             ELSE Invoked(call.name, write_file(f, order, call.file_path.value,
                                                call.content.value))
      [] call.name = "run_python_file" ->
             IF ~call.file_path.given
             THEN Declined("MissingArgument", f)
             ELSE Invoked(call.name, run_python_file(f, order, call.file_path.value,
                                                     ArgsOf(call), end))
      [] OTHER -> Declined("UnknownFunction", f)

\* The record of a function call executed: what was invoked and spawned,
\* the result, and whether the tree changed.
Did(call, out, before) ==
    [call |-> call, invoked |-> out.invoked, spawned |-> out.spawned,
     result |-> out.result, changed |-> out.fs # before]

\* The ends the child of a function call can meet: silent success, output
\* with a failure code, or the timeout.
CallEnds(f, order, call) ==
    IF /\ call.name = "run_python_file"
       /\ call.file_path.given
       /\ RunChecks(f, order, call.file_path.value).result.kind = "spawn"
    THEN {e \in ChildEnds :
             \/ e.how = "timeout"
             \/ e.how = "exit" /\ e.stdout = <<>> /\ e.stderr = <<>> /\ e.returncode = 0
             \/ e.how = "exit" /\ e.stdout = <<"o">> /\ e.stderr = <<>> /\ e.returncode = 1}
    ELSE {NoChild}

\* ---------------------------------------------------------------- run_agent

MaxCalls == 2

\* What a response holds for each candidate: no candidate, a candidate
\* without content, or content.
CandidateLists == {<<>>, <<"content">>, <<"none", "content", "no_content", "content">>}

\* What generate_content returns: nothing, a response without usage
\* metadata, or a response with it.
Responses ==
    {NoResponse}
    \cup {[present |-> TRUE, usage |-> u, candidates |-> c, function_calls |-> calls] :
            u \in BOOLEAN, c \in CandidateLists,
            calls \in SeqsUpTo(FunctionCalls, MaxCalls)}

\* The conversations run_agent is given: the prompt alone, or the prompt
\* with the content and the function result of an earlier turn.
Histories ==
    {<<UserPrompt>>,
     <<UserPrompt, Message("model", "content", 1, Result("none", NoRequest)),
       Message("user", "Function result", 1, Result("NotFound", AskedFile.value))>>}

\* response is None or response.usage_metadata is None
Malformed(response) == ~response.present \/ ~response.usage

\* The contents of the candidates that have one, in order.
CandidateContents(candidates) ==
    LET F[k \in 0..Len(candidates)] ==
            IF k = 0 THEN <<>>
            ELSE IF candidates[k] = "content"
                 THEN Append(F[k - 1], Message("model", "content", k, Result("none", NoRequest)))
                 ELSE F[k - 1]
    IN  F[Len(candidates)]

\* if response.function_calls: has_function_calls = True, always.
AlwaysHasCalls(response) == TRUE

\* if response.function_calls: has_function_calls = True
HasFunctionCalls(response) == response.function_calls # <<>>

\* client.models.generate_content raises: the error is printed and the
\* messages are returned with False.
GenerateRaises ==
    /\ agent.pc = "start"
    /\ agent' = [agent EXCEPT !.pc = "returned", !.returned = TRUE,
                              !.failed = TRUE, !.has_function_calls = FALSE]
    /\ UNCHANGED <<fs, scan, last, proc, main>>

\* client.models.generate_content returns.
Generate ==
    /\ agent.pc = "start"
    /\ \E response \in Responses :
           agent' = [agent EXCEPT !.pc = "generated", !.response = response]
    /\ UNCHANGED <<fs, scan, last, proc, main>>

\* The token counts are printed in verbose mode, read from the usage
\* metadata of the response; then the response is tested for being
\* malformed.
Inspect ==
    /\ agent.pc = "generated"
    /\ agent' =
           IF agent.verbose /\ Malformed(agent.response)
           THEN [agent EXCEPT !.pc = "raised"]
           ELSE IF Malformed(agent.response)
           THEN [agent EXCEPT !.pc = "returned", !.returned = TRUE,
                              !.has_function_calls = FALSE]
           ELSE [agent EXCEPT !.pc = "candidates"]
    /\ UNCHANGED <<fs, scan, last, proc, main>>

\* The content of each candidate that has one is appended; the flag is
\* set from the function calls of the response.
AppendCandidates ==
    /\ agent.pc = "candidates"
    /\ agent' = [agent EXCEPT
                    !.pc = "calls",
                    !.messages = @ \o CandidateContents(agent.response.candidates),
                    !.has_function_calls = HasFunctionCalls(agent.response),
                    !.k = 1]
    /\ UNCHANGED <<fs, scan, last, proc, main>>

\* What run_agent does with a function call and what call_function made of
\* it.
Executes(call, out) ==
    /\ fs' = out.fs
    /\ agent' =
           IF out.result.kind = "Raised"
           THEN [agent EXCEPT !.pc = "raised", !.done = Append(@, Did(call, out, fs))]
           ELSE [agent EXCEPT
                    !.messages = Append(@, Message("user", "Function result",
                                                   agent.k, out.result)),
                    !.done = Append(@, Did(call, out, fs)),
                    !.k = @ + 1]

\* The next function call of the response is executed and its result
\* appended; an exception that leaves call_function leaves run_agent.
CallFunction ==
    /\ agent.pc = "calls"
    /\ agent.k <= Len(agent.response.function_calls)
    /\ \E end \in CallEnds(fs, scan, agent.response.function_calls[agent.k]) :
           Executes(agent.response.function_calls[agent.k],
                    call_function(fs, scan, agent.response.function_calls[agent.k], end))
    /\ UNCHANGED <<scan, last, proc, main>>

\* return messages, has_function_calls
Return ==
    /\ agent.pc = "calls"
    /\ agent.k > Len(agent.response.function_calls)
    /\ agent' = [agent EXCEPT !.pc = "returned", !.returned = TRUE]
    /\ UNCHANGED <<fs, scan, last, proc, main>>

AgentTrees == {Skeleton, Add(Skeleton, <<RootName, "m.py">>, FileEntry(Old))}

InitAgent ==
    /\ fs \in AgentTrees
    /\ scan = CHOOSE o \in Orders : TRUE
    /\ last = [NoCall EXCEPT !.before = fs]
    /\ proc = NoProc
    /\ main = NoMain
    /\ \E verbose \in BOOLEAN, messages \in Histories :
           agent = [NoAgent EXCEPT !.verbose = verbose, !.messages = messages,
                                   !.given = messages]

NextAgent ==
    GenerateRaises \/ Generate \/ Inspect \/ AppendCandidates \/ CallFunction \/ Return

SpecAgent == InitAgent /\ [][NextAgent]_vars

\* ------------------------------------------------------------- properties

Called == last.op # "none"

\* The canonicalized join of the root and the requested path.
Literal == Resolve(Join(Root, last.req))

Contained(p) == IsPrefix(Root, p)

Outside == Called /\ ~Contained(Literal)

\* The paths whose entry the call created, removed or changed.
Mutated ==
    {p \in DOMAIN fs \cup DOMAIN last.before :
        \/ p \notin DOMAIN fs
        \/ p \notin DOMAIN last.before
        \/ fs[p] # last.before[p]}

\* The entries under the root that bear a name.
Named(f, n) == {p \in DOMAIN f : UnderRoot(p) /\ Last(p) = n}

FileOps == {"get_file_content", "write_file", "run_python_file"}

Started == {"Output", "NoOutput", "Timeout"}

\* C1: containment.  Whatever the operation and the request, every entry
\* the call creates or changes is the root or below it, the path a write
\* opens and the file a child process runs are the root or below it, and a
\* request whose canonicalized join with the root is outside the root gets
\* AccessDenied, with the filesystem as it was and no process started.
C1_Containment ==
    Called =>
        /\ \A p \in Mutated : Contained(p)
        /\ (last.op = "write_file" /\ last.result.kind \in {"WriteOk", "IOError"})
               => Contained(last.target)
        /\ \A i \in DOMAIN last.spawned :
               Contained(Lookup(last.before, last.spawned[i].file))
        /\ Outside =>
               /\ last.result.kind = "AccessDenied"
               /\ fs = last.before
               /\ last.spawned = <<>>

\* A write to "../a", which names the file that exists beside the root.
C1_Witness ==
    /\ last.op = "write_file"
    /\ Outside
    /\ IsFile(last.before, Literal)
    /\ last.result.kind = "AccessDenied"
    /\ fs[Literal] = last.before[Literal]

\* C2: containment comes before existence and kind.  A request that
\* canonicalizes outside the root gets AccessDenied from each of the four
\* operations whether or not anything exists there, never NotFound,
\* NotADirectory, NotAFile or WrongFileType, and no search is made for it.
C2_ContainmentFirst ==
    \A op \in {"get_files_info"} \cup FileOps :
        (last.op = op /\ Outside) =>
            /\ last.result.kind \notin {"NotFound", "NotADirectory", "NotAFile", "WrongFileType"}
            /\ last.result.kind = "AccessDenied"
            /\ ~last.searched

\* A read of a path outside the root at which nothing exists, the name
\* being absent from the sandbox too.
C2_Witness ==
    /\ last.op = "get_file_content"
    /\ Outside
    /\ ~Exists(last.before, Literal)
    /\ Named(last.before, BaseName(last.req)) = {}
    /\ last.result.kind = "AccessDenied"

\* The case of the fallback: a relative request that ends in a name, its
\* literal path inside the root and missing, and one entry of that name
\* under the root, a regular file.
FallbackCase(op) ==
    /\ last.op = op
    /\ ~last.req.abs
    /\ last.req.segs # <<>>
    /\ Last(last.req.segs) \in Names
    /\ Contained(Literal)
    /\ ~Exists(last.before, Literal)
    /\ Cardinality(Named(last.before, BaseName(last.req))) = 1
    /\ \A p \in Named(last.before, BaseName(last.req)) : last.before[p].kind = "file"

TheNamed == CHOOSE p \in Named(last.before, BaseName(last.req)) : TRUE

ReadIt ==
    /\ last.result.kind = "Content"
    /\ last.target = TheNamed
    /\ ~last.result.marked
    /\ last.result.text = UniversalNewlines(last.before[TheNamed].content)
    /\ fs = last.before

OverwroteIt ==
    /\ last.result.kind = "WriteOk"
    /\ last.target = TheNamed
    /\ Mutated \subseteq {TheNamed}
    /\ fs[TheNamed] = FileEntry(last.content)

RanIt ==
    /\ last.result.kind \notin {"NotFound", "NotAFile", "WrongFileType", "AccessDenied"}
    /\ last.target = TheNamed
    /\ \A i \in DOMAIN last.spawned : last.spawned[i].file = TheNamed
    /\ last.result.kind \in Started => Len(last.spawned) = 1
    /\ fs = last.before

WriteCall == last.op = "write_file" /\ Contained(Literal)

NestedCase ==
    /\ WriteCall
    /\ ~last.req.abs
    /\ Len(last.req.segs) >= 2
    /\ \A i \in DOMAIN last.req.segs : last.req.segs[i] \in Names
    /\ <<RootName, last.req.segs[1]>> \notin DOMAIN last.before

\* The tree with the directories down to p and the file p holding c.
Created(f, p, c) ==
    [q \in DOMAIN f \cup Prefixes(p) |->
        IF q = p THEN FileEntry(c) ELSE IF q \in DOMAIN f THEN f[q] ELSE DirEntry]

\* C5 as stated: in the nested case the file exists at the literal path
\* afterwards and holds c, whatever the rest of the tree.
C5_AsStated ==
    NestedCase => (Literal \in DOMAIN fs /\ fs[Literal] = FileEntry(last.content))

\* C5: creation of the intermediate directories.  In the nested case, when
\* no entry under the root has the name of the file, the call succeeds and
\* leaves the tree it found plus every missing directory down to the
\* literal path and the file there, holding c.  When an entry of that name
\* exists, the first one found is the target instead: neither the file nor
\* d is created, and nothing but that entry can change.
C5_NestedCreate ==
    NestedCase =>
        IF Named(last.before, BaseName(last.req)) = {}
        THEN /\ last.result.kind = "WriteOk"
             /\ last.target = Literal
             /\ fs = Created(last.before, Literal, last.content)
        ELSE /\ last.target \in Named(last.before, BaseName(last.req))
             /\ Mutated \subseteq {last.target}
             /\ Literal \notin DOMAIN fs
             /\ <<RootName, last.req.segs[1]>> \notin DOMAIN fs

\* A write of "d/n/f" into a root without d and without any f: d, d/n and
\* the file are there afterwards.
C5_Witness ==
    /\ NestedCase
    /\ Len(last.req.segs) = 3
    /\ Named(last.before, BaseName(last.req)) = {}
    /\ last.result.kind = "WriteOk"
    /\ Parent(Parent(Literal)) \notin DOMAIN last.before
    /\ IsDir(fs, Parent(Parent(Literal)))
    /\ IsDir(fs, Parent(Literal))
    /\ fs[Literal] = FileEntry(last.content)

\* The search of write_file is triggered and the literal path could be
\* created: no entry on the way to it is anything but a directory.
SearchCase ==
    /\ WriteCall
    /\ ~last.req.abs
    /\ last.req.segs # <<>>
    /\ Last(last.req.segs) \in Names
    /\ Literal \notin DOMAIN last.before
    /\ Parent(Literal) \notin DOMAIN last.before
    /\ ~MkdirFails(last.before, Parent(Literal))

\* C6 as stated: when the search is triggered, an entry the call overwrites
\* is a regular file of the requested name; and when no regular file of
\* that name exists under the root, a directory of that name or not, the
\* file is created at the literal path.
C6_AsStated ==
    SearchCase =>
        /\ \A p \in Mutated \cap DOMAIN last.before :
               last.before[p].kind = "file" /\ Last(p) = BaseName(last.req)
        /\ (\A p \in Named(last.before, BaseName(last.req)) : last.before[p].kind # "file")
               => (Literal \in DOMAIN fs /\ fs[Literal] = FileEntry(last.content))

\* C7: a successful write replaces the content.  After the success message
\* the target holds exactly the content argument, and the count in the
\* message is the length of that content in characters.
C7_WholeContent ==
    (last.op = "write_file" /\ last.result.kind = "WriteOk") =>
        /\ last.target \in DOMAIN fs
        /\ fs[last.target] = FileEntry(last.content)
        /\ last.result.count = Len(last.content)
        /\ last.result.path = last.req

\* The overwrite of a file of three characters with a text of two
\* characters and three bytes.
C7_Witness ==
    /\ last.op = "write_file"
    /\ last.result.kind = "WriteOk"
    /\ last.target \in DOMAIN last.before
    /\ Len(last.before[last.target].content) > Len(last.content)
    /\ last.content # <<>>
    /\ ByteSize(last.content) # Len(last.content)
    /\ fs[last.target].content = last.content

\* C8: write_file is idempotent.  The same call made again on the tree the
\* first one left leaves that tree as it is and returns the same result,
\* count included, whatever the first call returned.
C8_Idempotent ==
    last.op = "write_file" =>
        LET again == write_file(fs, scan, last.req, last.content)
        IN  /\ again.fs = fs
            /\ again.result = last.result
            /\ again.target = last.target

\* A successful write that went through the search, two files bearing the
\* name, and changed the tree.
C8_Witness ==
    /\ last.op = "write_file"
    /\ last.searched
    /\ last.result.kind = "WriteOk"
    /\ last.content # <<>>
    /\ fs # last.before
    /\ Cardinality({p \in Named(last.before, BaseName(last.req)) :
                       last.before[p].kind = "file"}) >= 2
    /\ write_file(fs, scan, last.req, last.content).result.kind = "WriteOk"

\* What a read decodes from the file it resolved to.
Decoded == UniversalNewlines(last.before[Lookup(last.before, last.target)].content)

\* C9: truncation.  A read that returns content returns, when the decoded
\* text is longer than 10,240 characters, its first 10,240 characters and
\* then the marker with the requested path and the limit 10,240; when the
\* text has 10,240 characters or fewer, the text as it is and no marker.
C9_Truncation ==
    (last.op = "get_file_content" /\ last.result.kind = "Content") =>
        LET decoded == Decoded
        IN  IF Len(decoded) > 10240
            THEN /\ Len(last.result.text) = 10240
                 /\ last.result.text = SubSeq(decoded, 1, 10240)
                 /\ last.result.marked
                 /\ last.result.path = last.req
                 /\ last.result.limit = 10240
            ELSE /\ last.result.text = decoded
                 /\ ~last.result.marked

\* A read of "a" that the search resolved to m.py/a, a text of 10,241
\* characters: the marker names "a".
C9_Witness ==
    /\ last.op = "get_file_content"
    /\ last.result.kind = "Content"
    /\ last.searched
    /\ last.target # Literal
    /\ Len(Decoded) = 10241
    /\ last.result.marked
    /\ Len(last.result.text) = 10240
    /\ last.result.path = last.req

\* The immediate children of directory d.
ChildrenOf(f, d) == {p \in DOMAIN f : Len(p) = Len(d) + 1 /\ IsPrefix(d, p)}

\* C10 as stated: a listing has exactly one line per immediate child of the
\* directory and none for anything deeper; the line of a directory has
\* size 0 and is_dir true, the line of any other child its size in bytes
\* and is_dir false.
C10_AsStated ==
    (last.op = "get_files_info" /\ last.result.kind = "Listing") =>
        LET d == Lookup(last.before, last.target)
            kids == ChildrenOf(last.before, d)
            lines == last.result.lines
        IN  /\ Len(lines) = Cardinality(kids)
            /\ \A i \in DOMAIN lines : Append(d, lines[i].name) \in kids
            /\ \A p \in kids : \E i \in DOMAIN lines :
                   /\ lines[i].name = Last(p)
                   /\ lines[i].is_dir = (last.before[p].kind = "dir")
                   /\ lines[i].file_size =
                          IF last.before[p].kind = "dir" THEN 0
                          ELSE ByteSize(last.before[p].content)

\* get_files_info(root, ".")
DotCall == last.op = "get_files_info" /\ last.req = [abs |-> FALSE, segs |-> <<Dot>>]

\* C11: "." never searches.  get_files_info(root, ".") makes no recursive
\* search and its target is the root itself, whatever the tree holds: it
\* lists the root's own children, and when nothing exists at the root it
\* reports that "." is not a directory.
C11_DotNeverSearches ==
    DotCall =>
        /\ ~last.searched
        /\ last.target = Root
        /\ last.result.kind \in {"Listing", "NotADirectory"}
        /\ last.result.kind = "Listing" <=> Root \in DOMAIN last.before
        /\ \A i \in DOMAIN last.result.lines :
               Append(Root, last.result.lines[i].name) \in DOMAIN last.before

\* "." on a missing root: no search, no NotFound.
C11_Witness ==
    /\ DotCall
    /\ Root \notin DOMAIN last.before
    /\ last.result.kind = "NotADirectory"
    /\ ~last.searched

\* A contained request written with names only, no "." and no "..".
PlainCall(op) ==
    /\ last.op = op
    /\ last.req.segs # <<>>
    /\ \A i \in DOMAIN last.req.segs : last.req.segs[i] \in Names \cup {RootName}
    /\ Contained(Literal)

\* No entry under the root has a path that ends with the components q.
NoMatch(q) ==
    ~\E p \in DOMAIN last.before :
        /\ UnderRoot(p)
        /\ Len(p) > Len(q)
        /\ SubSeq(p, Len(p) - Len(q) + 1, Len(p)) = q

\* What the search of the call looks for: the requested sub-path for a
\* directory, the final name for a file.
Sought ==
    IF last.op = "get_files_info"
    THEN SubSeq(Literal, Len(Root) + 1, Len(Literal))
    ELSE <<Last(Literal)>>

\* C12 as stated: for a contained request, listing, reading and running
\* return NotFound exactly when nothing exists at the literal path and the
\* search finds no matching entry under the root; write_file never returns
\* NotFound.
C12_AsStated ==
    /\ \A op \in {"get_files_info", "get_file_content", "run_python_file"} :
           (PlainCall(op) /\ Literal # Root) =>
               (last.result.kind = "NotFound"
                    <=> (Literal \notin DOMAIN last.before /\ NoMatch(Sought)))
    /\ last.op = "write_file" => last.result.kind # "NotFound"

RunCall == last.op = "run_python_file"

\* The entry a run resolves to: the literal path when something exists
\* there, else the first match of the search by name, else nothing.
RunResolved ==
    IF Literal \in DOMAIN last.before THEN Literal
    ELSE LET found == FindByName(last.before, scan, last.req)
         IN  IF found = <<>> THEN NoEntry ELSE Lookup(last.before, found[1])

PreSpawnErrors == {"AccessDenied", "NotFound", "NotAFile", "WrongFileType"}

\* C13: the order of run_python_file's checks.  A request outside the root
\* gets AccessDenied whatever else is wrong with it; a contained one that
\* resolves to nothing gets NotFound; one that resolves to something other
\* than a regular file gets NotAFile; one that resolves to a regular file
\* but does not end in .py gets WrongFileType.  None of these four starts a
\* child or changes the tree, and a child is started only for a contained
\* request ending in .py that resolves to a regular file under the root.
C13_CheckOrder ==
    RunCall =>
        /\ last.result.kind = "AccessDenied" <=> ~Contained(Literal)
        /\ last.result.kind = "NotFound" <=> (Contained(Literal) /\ RunResolved = NoEntry)
        /\ last.result.kind = "NotAFile" <=>
               /\ Contained(Literal)
               /\ RunResolved # NoEntry
               /\ last.before[RunResolved].kind # "file"
        /\ last.result.kind = "WrongFileType" <=>
               /\ Contained(Literal)
               /\ RunResolved # NoEntry
               /\ last.before[RunResolved].kind = "file"
               /\ ~(last.req.segs # <<>> /\ Last(last.req.segs) \in PyNames)
        /\ last.result.kind \in PreSpawnErrors => (last.spawned = <<>> /\ fs = last.before)
        /\ Len(last.spawned) <= 1
        /\ \A i \in DOMAIN last.spawned :
               /\ Contained(Literal)
               /\ Lookup(last.before, last.spawned[i].file) = RunResolved
               /\ UnderRoot(RunResolved)
               /\ last.before[RunResolved].kind = "file"
               /\ Last(last.req.segs) \in PyNames

\* A run of "a", which is a directory: NotAFile, not WrongFileType.
C13_Witness ==
    /\ RunCall
    /\ Contained(Literal)
    /\ last.req.segs # <<>>
    /\ Last(last.req.segs) \notin PyNames
    /\ IsDir(last.before, Literal)
    /\ last.result.kind = "NotAFile"
    /\ last.spawned = <<>>

\* A run whose child ended by itself within the timeout.
Finished == RunCall /\ last.child.how = "exit"

\* The blocks the streams and the exit code call for, in order.
DueBlocks ==
    (IF last.child.stdout # <<>> THEN <<Block("STDOUT", last.child.stdout, 0)>> ELSE <<>>)
    \o (IF last.child.stderr # <<>> THEN <<Block("STDERR", last.child.stderr, 0)>> ELSE <<>>)
    \o (IF last.child.returncode # 0
        THEN <<Block("EXIT", <<>>, last.child.returncode)>> ELSE <<>>)

\* C14 as stated: for a child that ends within the timeout, the result has
\* a stdout block iff stdout is not empty, then a stderr block iff stderr
\* is not empty, then an exit-code line iff the code is not 0; it is the
\* "No output produced." sentinel iff all three are absent, and is never an
\* empty text.
C14_AsStated ==
    Finished =>
        /\ last.result.kind \in {"Output", "NoOutput"}
        /\ last.result.parts = DueBlocks
        /\ last.result.kind = "NoOutput" <=> DueBlocks = <<>>
        /\ last.result.kind = "Output" => last.result.parts # <<>>

\* C15: run_python_file returns.  A call that has started its child always
\* returns in the end, whether or not the child ever exits; and a call that
\* found its child still running after 30 seconds has killed it and returns
\* the Timeout error.
C15_AlwaysReturns ==
    /\ (proc.pc = "waiting") ~> (proc.pc = "returned" /\ RunCall)
    /\ [](proc.pc = "killing" => (proc.clock = 30 /\ proc.child = "killed"))
    /\ []((proc.pc = "returned" /\ last.child.how = "timeout") =>
              (last.result.kind = "Timeout" /\ proc.child = "reaped" /\ proc.clock = 30))

\* The call has returned Timeout at the thirtieth second, its child killed
\* and waited for.
C15_Witness ==
    /\ RunCall
    /\ proc.pc = "returned"
    /\ proc.clock = 30
    /\ proc.child = "reaped"
    /\ last.result.kind = "Timeout"
    /\ Len(last.spawned) = 1

\* C16: one child, none left behind.  A call starts at most one child, and
\* when it has returned, on whichever path (a check failed, the child could
\* not be started, the child ended, the output could not be decoded, the
\* timeout was reached), no child of it is running.
C16_OneChildNoneLeft ==
    /\ proc.started <= 1
    /\ Len(last.spawned) <= 1
    /\ RunCall =>
           /\ proc.child \in {"none", "reaped"}
           /\ proc.child = "none" <=> proc.started = 0
           /\ last.spawned # <<>> => proc.started = 1

\* The call returned an error about output it could not decode; its child
\* had run and has been waited for.
C16_Witness ==
    /\ RunCall
    /\ proc.started = 1
    /\ proc.child = "reaped"
    /\ last.result.kind = "ExecError"
    /\ Undecodable \in {last.child.stdout, last.child.stderr}

\* The call that was made, made once more on the tree as it is now; for a
\* run, with a child that behaves as the first one did.
Again ==
    CASE last.op = "get_files_info" -> get_files_info(fs, scan, last.req)
      [] last.op = "get_file_content" -> get_file_content(fs, scan, last.req)
      [] last.op = "write_file" -> write_file(fs, scan, last.req, last.content)
      [] last.op = "run_python_file" ->
             run_python_file(fs, scan, last.req, last.args, last.child)

C18_AsStated ==
    \A op \in FileOps \cup {"get_files_info"} :
        (Called /\ last.op = op) => last.result.kind # "Raised"

\* The calls of run_agent so far that reported function calls.
CallsReported == {k \in 1..Len(main.reports) : main.reports[k] = "calls"}

\* The numbers of the "Agent iteration k completed" lines, in the order
\* printed.
IterationLines ==
    LET F[k \in 0..Len(main.out)] ==
            IF k = 0 THEN <<>>
            ELSE IF main.out[k].line = "Agent iteration completed"
                 THEN Append(F[k - 1], main.out[k].n)
                 ELSE F[k - 1]
    IN  F[Len(main.out)]

LoopLeft == main.pc \in {"after", "done", "crashed"}

\* C19: the agent loop is bounded.  run_agent is called at most 20 times,
\* and at least once when the loop has been left; only the last call can
\* be one that did not report function calls; the counter is the number of
\* calls that reported function calls and the verbose lines number them
\* 1, 2, ...; the warning is printed exactly when main returns after 20
\* calls that all reported function calls.
C19_BoundedLoop ==
    /\ Len(main.reports) <= 20
    /\ LoopLeft => Len(main.reports) >= 1
    /\ \A k \in 1..Len(main.reports) :
           main.reports[k] # "calls" => (k = Len(main.reports) /\ LoopLeft)
    /\ main.iteration = Cardinality(CallsReported)
    /\ IterationLines = IF main.verbose
                        THEN [k \in 1..main.iteration |-> k]
                        ELSE <<>>
    /\ Printed("Warning: Maximum iterations reached") =>
           (main.pc = "done" /\ Cardinality(CallsReported) = 20)
    /\ (main.pc = "done" /\ Cardinality(CallsReported) = 20) =>
           Printed("Warning: Maximum iterations reached")

\* A verbose main that returned with the warning after 20 calls, and the
\* lines 1 to 20.
C19_Witness ==
    /\ main.pc = "done"
    /\ main.verbose
    /\ Len(main.reports) = 20
    /\ Printed("Warning: Maximum iterations reached")
    /\ Len(IterationLines) = 20

\* A main that left the loop at the third call, the first to report no
\* function calls.
C19_StopsEarly ==
    /\ main.pc = "done"
    /\ main.reports = <<"calls", "calls", "none">>
    /\ main.iteration = 2
    /\ ~Printed("Warning: Maximum iterations reached")

\* The flags of main other than --prompt, in both spellings.
OtherFlags == {"--verbose", "-v", "--help", "-h"}

\* main is about to look at a --prompt or -p that is the last argument or
\* has a flag right after it.
PromptWithoutValue ==
    /\ main.pc = "parse"
    /\ main.i <= Len(main.argv)
    /\ main.argv[main.i] \in {"--prompt", "-p"}
    /\ (main.i = Len(main.argv) \/ main.argv[main.i + 1] \in OtherFlags)

\* C20 as stated: a --prompt (or -p) that is the last argument, or that is
\* followed at once by --verbose, -v, --help or -h, makes main print
\* "Error: --prompt requires a value" and exit with code 1 without a call
\* of run_agent; a flag is never the prompt text.
C20_AsStated ==
    /\ [][PromptWithoutValue =>
              /\ main'.pc = "exited"
              /\ main'.code = 1
              /\ main'.out = Append(main.out, Line("Error: --prompt requires a value", 0))
              /\ main'.reports = <<>>]_vars
    /\ [](\A flag \in OtherFlags : main.prompt # <<flag>>)

\* The read of the path just written, on the tree the write left.
ReadBack == get_file_content(fs, scan, last.req)

\* C22 as stated: after a successful write of a content no longer than the
\* truncation limit, reading the same requested path on the tree the write
\* left returns exactly that content, from the file the write resolved to,
\* with or without the recursive search.
C22_AsStated ==
    (last.op = "write_file" /\ last.result.kind = "WriteOk"
        /\ Len(last.content) <= 10240) =>
        /\ ReadBack.target = last.target
        /\ ReadBack.result.kind = "Content"
        /\ ReadBack.result.text = last.content

\* The directories between the root and a path, the path excluded.
ParentChain(p) == {q \in Prefixes(p) : q # p /\ Contained(q)}

Refusals == {"AccessDenied", "NotFound", "NotAFile", "WrongFileType"}

\* C23: frame.  Listing and reading leave every entry as it was.  A
\* successful write leaves one file holding the content, creates nothing
\* but directories on that file's parent chain, and changes no other
\* entry.  A write or a run that is refused with AccessDenied, NotFound,
\* NotAFile or WrongFileType leaves every entry as it was.
C23_Frame ==
    /\ last.op \in {"get_files_info", "get_file_content"} => Mutated = {}
    /\ (last.op = "write_file" /\ last.result.kind = "WriteOk") =>
           /\ IsFile(fs, last.target)
           /\ fs[last.target].content = EncodeNewlines(last.content)
           /\ \A p \in Mutated \ {last.target} :
                  /\ p \in ParentChain(last.target)
                  /\ p \notin DOMAIN last.before
                  /\ fs[p] = DirEntry
           /\ \A p \in DOMAIN last.before \ {last.target} : fs[p] = last.before[p]
    /\ (last.op \in {"write_file", "run_python_file"}
            /\ last.result.kind \in Refusals) => Mutated = {}

\* A successful write that created a directory for its file and left a
\* file that was there before as it was.
C23_Witness ==
    /\ last.op = "write_file"
    /\ last.result.kind = "WriteOk"
    /\ last.target \notin DOMAIN last.before
    /\ \E p \in Mutated : p # last.target /\ fs[p] = DirEntry
    /\ \E q \in DOMAIN last.before :
           /\ last.before[q].kind = "file"
           /\ fs[q] = last.before[q]

\* A write that was refused and changed nothing, the parent of its literal
\* path missing.
C23_Refused ==
    /\ last.op = "write_file"
    /\ last.result.kind = "AccessDenied"
    /\ Parent(Literal) \notin DOMAIN last.before
    /\ fs = last.before

\* A function call that lacks an argument its function requires, or names
\* no operation.
Unfit(call) ==
    \/ call.name \in FileOps /\ ~call.file_path.given
    \/ call.name = "write_file" /\ ~call.content.given
    \/ call.name \notin FileOps \cup {"get_files_info"}

LastDone == agent.done[Len(agent.done)]

\* C21: call_function invokes at most one operation, and none without the
\* required arguments.  A call without file_path for reading, writing or
\* running, without content for writing, or of an unknown function gets an
\* error text, with no operation invoked, no child spawned and the tree
\* unchanged.  A listing without directory lists "."; a run without args
\* passes no arguments to the script.
C21_CallFunction ==
    /\ \A k \in 1..Len(agent.done) :
           LET did == agent.done[k]
           IN  /\ Len(did.invoked) <= 1
               /\ Unfit(did.call) =>
                      /\ did.result.kind \in {"MissingArgument", "UnknownFunction"}
                      /\ did.invoked = <<>>
                      /\ did.spawned = <<>>
                      /\ ~did.changed
               /\ ~Unfit(did.call) => did.invoked = <<did.call.name>>
               /\ (did.call.name = "run_python_file" /\ ~did.call.args.given) =>
                      \A i \in 1..Len(did.spawned) : did.spawned[i].args = <<>>
    /\ (agent.done # <<>> /\ LastDone.call.name = "get_files_info"
            /\ ~LastDone.call.directory.given) =>
           /\ LastDone.result.path = [abs |-> FALSE, segs |-> <<".">>]
           /\ LastDone.result = get_files_info(fs, scan, [abs |-> FALSE, segs |-> <<".">>]).result

\* A write without content that was declined although its file exists, a
\* listing without directory that listed the root, and a run without args
\* that spawned a child, in one conversation or another.
C21_Witness ==
    /\ agent.done # <<>>
    /\ \/ /\ LastDone.call.name = "write_file"
          /\ LastDone.call.file_path.given
          /\ ~LastDone.call.content.given
          /\ IsFile(fs, <<RootName, "m.py">>)
          /\ LastDone.result.kind = "MissingArgument"
       \/ /\ LastDone.call.name = "delete_file"
          /\ LastDone.result.kind = "UnknownFunction"
    /\ \E k \in 1..Len(agent.done) :
           /\ agent.done[k].call.name = "get_files_info"
           /\ ~agent.done[k].call.directory.given
           /\ agent.done[k].result.kind = "Listing"

\* The messages added to those run_agent was given.
Added == SubSeq(agent.messages, Len(agent.given) + 1, Len(agent.messages))

IsModelContent(m) == m.role = "model" /\ m.kind = "content"

IsFunctionResult(m) == m.role = "user" /\ m.kind = "Function result"

\* run_agent returned after a response that was not malformed.
Answered == agent.returned /\ ~agent.failed /\ agent.response.present /\ agent.response.usage

\* C24: the message history is append-only.  No step removes, replaces or
\* reorders a message.  When run_agent returns after a successful response,
\* what it added is the content of each candidate that has one, in order,
\* followed by one "Function result" user message per function call, in the
\* order of the calls, and has_function_calls is True exactly when the
\* response held a function call.  When the model call raised, the
\* messages are those given and has_function_calls is False.
C24_AppendOnly ==
    /\ [][/\ Len(agent'.messages) >= Len(agent.messages)
          /\ SubSeq(agent'.messages, 1, Len(agent.messages)) = agent.messages]_vars
    /\ [](/\ Len(agent.messages) >= Len(agent.given)
          /\ SubSeq(agent.messages, 1, Len(agent.given)) = agent.given)
    /\ [](Answered =>
            LET contents == SelectSeq(Added, IsModelContent)
                results == SelectSeq(Added, IsFunctionResult)
                candidates == agent.response.candidates
                calls == agent.response.function_calls
            IN  /\ Added = contents \o results
                /\ Len(contents) = Cardinality({k \in 1..Len(candidates) :
                                                   candidates[k] = "content"})
                /\ \A i \in 1..Len(contents) :
                       /\ contents[i].of \in 1..Len(candidates)
                       /\ candidates[contents[i].of] = "content"
                       /\ \A j \in 1..Len(contents) :
                              i < j => contents[i].of < contents[j].of
                /\ Len(results) = Len(calls)
                /\ Len(agent.done) = Len(calls)
                /\ \A k \in 1..Len(calls) :
                       /\ results[k].of = k
                       /\ agent.done[k].call = calls[k]
                       /\ results[k].result = agent.done[k].result
                /\ agent.has_function_calls <=> Len(calls) >= 1)
    /\ []((agent.returned /\ agent.failed) =>
            /\ agent.messages = agent.given
            /\ ~agent.has_function_calls)

\* A return with True after a response to an earlier conversation: two
\* candidates with content, one without, and two function calls, the
\* second of which was executed after the first changed the tree.
C24_Witness ==
    /\ Answered
    /\ agent.has_function_calls
    /\ Len(agent.given) = 3
    /\ Len(agent.response.candidates) = 4
    /\ Len(agent.response.function_calls) = 2
    /\ Len(agent.messages) = 3 + 2 + 2
    /\ agent.done[1].changed

\* A return with the messages as given after the model call raised.
C24_Raised ==
    /\ agent.returned
    /\ agent.failed
    /\ Len(agent.given) = 3
    /\ agent.messages = agent.given

\* C25 as stated: once run_agent has looked at a response that is None or
\* has no usage metadata, verbose or not, it has returned the messages it
\* was given with has_function_calls False, no function call executed and
\* no exception raised.
C25_AsStated ==
    (/\ agent.pc \notin {"start", "generated"}
     /\ ~agent.failed
     /\ (~agent.response.present \/ ~agent.response.usage)) =>
        /\ agent.pc = "returned"
        /\ agent.returned
        /\ agent.messages = agent.given
        /\ ~agent.has_function_calls
        /\ agent.done = <<>>
=============================================================================
